---------------------------- MODULE Spec2Model ----------------------------
(***************************************************************************)
(* A model of the miniLSM storage engine (mini-lsm/src/lsm_storage.rs):    *)
(* the copy-on-write engine state behind RwLock<Arc<LsmStorageInner>>, the *)
(* write path (put / delete), the read path (get / scan) and the flush     *)
(* protocol (sync), run by concurrent threads.                             *)
(***************************************************************************)
EXTENDS Integers, Sequences, FiniteSets, TLC

\* ------------------------------------------------------------------------
\* Bounds of the model
\* ------------------------------------------------------------------------
MaxCalls == 4       \* put, delete and sync calls in one behaviour
MaxEntries == 3     \* entries added to one SsTableBuilder

\* Calls keep nothing between them, so which thread makes a call does not
\* matter, only how many calls of each kind are in flight at once: two
\* threads that write and sync, one thread that reads.
Workers == {"w1", "w2"}
Readers == {"r1"}
Threads == Workers \cup Readers
NoThread == "none"

\* Keys are non-empty byte strings, ordered lexicographically.
Keys == {<<1>>, <<1, 2>>}
\* Live values are non-empty byte strings; the empty one is the tombstone.
Values == {<<1>>, <<2>>}
Tombstone == <<>>

\* Inputs of a stand-alone SsTableBuilder: keys, values (the tombstone too)
\* and target block sizes, from one too small for any entry to the engine's.
TableKeys == {<<1>>, <<1, 2>>, <<2>>, <<3>>}
TableValues == {<<>>, <<7>>, <<7, 8, 9>>}
BlockSizes == {1, 18, 22, 4096}

\* ------------------------------------------------------------------------
\* Byte strings, options, bounds
\* ------------------------------------------------------------------------
Min(a, b) == IF a <= b THEN a ELSE b

\* Lexicographic order of &[u8]
KeyLt(a, b) ==
    \/ \E i \in 1..Min(Len(a), Len(b)) :
          /\ a[i] < b[i]
          /\ \A j \in 1..(i - 1) : a[j] = b[j]
    \/ /\ Len(a) < Len(b)
       /\ \A j \in 1..Len(a) : a[j] = b[j]

KeyLe(a, b) == a = b \/ KeyLt(a, b)

None == [some |-> FALSE]
Some(v) == [some |-> TRUE, val |-> v]

Unbounded == [kind |-> "Unbounded"]
Included(k) == [kind |-> "Included", key |-> k]
Excluded(k) == [kind |-> "Excluded", key |-> k]
Bounds == {Unbounded} \cup {Included(k) : k \in Keys} \cup {Excluded(k) : k \in Keys}

AboveLower(k, lower) ==
    CASE lower.kind = "Unbounded" -> TRUE
      [] lower.kind = "Included" -> KeyLe(lower.key, k)
      [] lower.kind = "Excluded" -> KeyLt(lower.key, k)

BelowUpper(k, upper) ==
    CASE upper.kind = "Unbounded" -> TRUE
      [] upper.kind = "Included" -> KeyLe(k, upper.key)
      [] upper.kind = "Excluded" -> KeyLt(k, upper.key)

RECURSIVE SortKeys(_)
SortKeys(S) ==
    IF S = {} THEN <<>>
    ELSE LET m == CHOOSE x \in S : \A y \in S : KeyLe(x, y)
         IN <<m>> \o SortKeys(S \ {m})

Range(s) == {s[i] : i \in 1..Len(s)}

\* ------------------------------------------------------------------------
\* Memtable: an ordered map from key to value (tombstones included)
\* ------------------------------------------------------------------------
EmptyMemtable == <<>>

MemtablePut(m, k, v) ==
    [x \in (DOMAIN m) \cup {k} |-> IF x = k THEN v ELSE m[x]]

MemtableGet(m, k) == IF k \in DOMAIN m THEN Some(m[k]) ELSE None

\* The entries of a memtable within the bounds, in ascending key order.
MemtableScan(m, lower, upper) ==
    LET ks == SortKeys({k \in DOMAIN m : AboveLower(k, lower) /\ BelowUpper(k, upper)})
    IN [i \in 1..Len(ks) |-> [key |-> ks[i], value |-> m[ks[i]]]]

\* Memtable::flush feeds every entry, ascending, to the SsTableBuilder.
MemtableFlush(m) == MemtableScan(m, Unbounded, Unbounded)

\* ------------------------------------------------------------------------
\* SSTs and iterators.  An iterator is modelled by the entries it has yet
\* to yield, its current entry first; it is valid iff that is non-empty.
\* ------------------------------------------------------------------------

\* SsTableBuilder::build: the table holds the added entries in insertion
\* order under the given id.
SsTableBuild(id, entries) == [id |-> id, entries |-> entries]

RECURSIVE DropWhileBelow(_, _)
DropWhileBelow(entries, key) ==
    IF entries = <<>> THEN <<>>
    ELSE IF KeyLt(Head(entries).key, key) THEN DropWhileBelow(Tail(entries), key)
    ELSE entries

create_and_seek_to_first(table) == table.entries

\* Positions at the first entry whose key is >= key.
create_and_seek_to_key(table, key) == DropWhileBelow(table.entries, key)

IterIsValid(it) == it # <<>>
IterNext(it) == Tail(it)

\* MergeIterator: the heap top is the valid source with the smallest
\* (current key, source index).
MergeTop(iters) ==
    CHOOSE i \in 1..Len(iters) :
        /\ IterIsValid(iters[i])
        /\ \A j \in 1..Len(iters) :
              IterIsValid(iters[j]) =>
                 \/ KeyLt(Head(iters[i]).key, Head(iters[j]).key)
                 \/ Head(iters[i]).key = Head(iters[j]).key /\ i <= j

\* The entries a MergeIterator yields: the top's entry, then every source
\* standing on the same key is advanced past it.
RECURSIVE MergeIterator(_)
MergeIterator(iters) ==
    IF \A i \in 1..Len(iters) : ~IterIsValid(iters[i]) THEN <<>>
    ELSE LET top == Head(iters[MergeTop(iters)])
             rest == [i \in 1..Len(iters) |->
                        IF IterIsValid(iters[i]) /\ Head(iters[i]).key = top.key
                        THEN IterNext(iters[i]) ELSE iters[i]]
         IN <<top>> \o MergeIterator(rest)

\* TwoMergeIterator: on equal keys a's entry wins and b skips the key.
RECURSIVE TwoMergeIterator(_, _)
TwoMergeIterator(a, b) ==
    IF ~IterIsValid(a) THEN b
    ELSE IF ~IterIsValid(b) THEN a
    ELSE IF KeyLt(Head(b).key, Head(a).key)
         THEN <<Head(b)>> \o TwoMergeIterator(a, IterNext(b))
    ELSE IF Head(a).key = Head(b).key
         THEN <<Head(a)>> \o TwoMergeIterator(IterNext(a), IterNext(b))
    ELSE <<Head(a)>> \o TwoMergeIterator(IterNext(a), b)

\* LsmIterator: ends at the first key beyond the upper bound and skips
\* entries whose value is empty.
RECURSIVE LsmIterator(_, _)
LsmIterator(iter, upper) ==
    IF ~IterIsValid(iter) THEN <<>>
    ELSE IF ~BelowUpper(Head(iter).key, upper) THEN <<>>
    ELSE IF Head(iter).value = Tombstone THEN LsmIterator(IterNext(iter), upper)
    ELSE <<Head(iter)>> \o LsmIterator(IterNext(iter), upper)

Reverse(s) == [i \in 1..Len(s) |-> s[Len(s) + 1 - i]]

\* ------------------------------------------------------------------------
\* Bytes.  A byte string is a sequence of 0..255; put_* / get_* are the
\* big-endian primitives of the bytes crate.
\* ------------------------------------------------------------------------
SIZEOF_U16 == 2

\* `x as u16`
AsU16(x) == x % 65536

put_u16(x) == <<AsU16(x) \div 256, AsU16(x) % 256>>
get_u16(b) == b[1] * 256 + b[2]

\* `x as u32`, then four bytes: the high and the low u16.
put_u32(x) == put_u16(x \div 65536) \o put_u16(x % 65536)
get_u32(b) == get_u16(SubSeq(b, 1, 2)) * 65536 + get_u16(SubSeq(b, 3, 4))

\* The Rust slice b[from..to]
Slice(b, from, to) == SubSeq(b, from + 1, to)

saturating_sub(a, b) == IF a >= b THEN a - b ELSE 0

\* ------------------------------------------------------------------------
\* Block and BlockBuilder (block.rs, block/builder.rs)
\* ------------------------------------------------------------------------
BlockBuilderNew(size) == [offsets |-> <<>>, data |-> <<>>, block_size |-> size]

estimated_size(b) == Len(b.offsets) * SIZEOF_U16 + Len(b.data) + SIZEOF_U16

BlockBuilderIsEmpty(b) == b.offsets = <<>>

\* Variant of BlockBuilderAdd: an entry that fills the block exactly is
\* rejected.
BlockBuilderAddBelowLimit(b, key, value) ==
    IF /\ estimated_size(b) + Len(key) + Len(value) + SIZEOF_U16 * 3 >= b.block_size
       /\ ~BlockBuilderIsEmpty(b)
    THEN [ret |-> FALSE, builder |-> b]
    ELSE [ret |-> TRUE,
          builder |-> [b EXCEPT !.offsets = Append(@, AsU16(Len(b.data))),
                                !.data = @ \o put_u16(Len(key)) \o key
                                           \o put_u16(Len(value)) \o value]]

\* BlockBuilder::add: the value returned and the builder afterwards.
BlockBuilderAdd(b, key, value) ==
    IF /\ estimated_size(b) + Len(key) + Len(value) + SIZEOF_U16 * 3 > b.block_size
       /\ ~BlockBuilderIsEmpty(b)
    THEN [ret |-> FALSE, builder |-> b]
    ELSE [ret |-> TRUE,
          builder |-> [b EXCEPT !.offsets = Append(@, AsU16(Len(b.data))),
                                !.data = @ \o put_u16(Len(key)) \o key
                                           \o put_u16(Len(value)) \o value]]

\* BlockBuilder::build, of a builder that is not empty.
BlockBuilderBuild(b) == [data |-> b.data, offsets |-> b.offsets]

RECURSIVE PutOffsets(_)
PutOffsets(offsets) ==
    IF offsets = <<>> THEN <<>>
    ELSE put_u16(Head(offsets)) \o PutOffsets(Tail(offsets))

\* Block::encode
BlockEncode(block) ==
    block.data \o PutOffsets(block.offsets) \o put_u16(Len(block.offsets))

\* Variant of BlockDecode: the two bytes of the count are not taken off
\* when the end of the entry area is computed.
BlockDecodeCountInData(data) ==
    LET entry_offsets_len == get_u16(Slice(data, Len(data) - SIZEOF_U16, Len(data)))
        data_end == Len(data) - entry_offsets_len * SIZEOF_U16
        offsets_raw == Slice(data, data_end, Len(data) - SIZEOF_U16)
    IN [data |-> Slice(data, 0, data_end),
        offsets |-> [i \in 1..(Len(offsets_raw) \div SIZEOF_U16) |->
                        get_u16(Slice(offsets_raw, (i - 1) * SIZEOF_U16, i * SIZEOF_U16))]]

\* Block::decode
BlockDecode(data) ==
    LET entry_offsets_len == get_u16(Slice(data, Len(data) - SIZEOF_U16, Len(data)))
        data_end == Len(data) - SIZEOF_U16 - entry_offsets_len * SIZEOF_U16
        offsets_raw == Slice(data, data_end, Len(data) - SIZEOF_U16)
    IN [data |-> Slice(data, 0, data_end),
        offsets |-> [i \in 1..(Len(offsets_raw) \div SIZEOF_U16) |->
                        get_u16(Slice(offsets_raw, (i - 1) * SIZEOF_U16, i * SIZEOF_U16))]]

\* The entries of a block as its iterator yields them: entry i starts at
\* offsets[i] and is key_len (u16) | key | value_len (u16) | value.
BlockEntry(block, i) ==
    LET o == block.offsets[i]
        key_len == get_u16(Slice(block.data, o, o + SIZEOF_U16))
        v == o + SIZEOF_U16 + key_len
        value_len == get_u16(Slice(block.data, v, v + SIZEOF_U16))
    IN [key |-> Slice(block.data, o + SIZEOF_U16, v),
        value |-> Slice(block.data, v + SIZEOF_U16, v + SIZEOF_U16 + value_len)]

BlockEntries(block) == [i \in 1..Len(block.offsets) |-> BlockEntry(block, i)]

\* ------------------------------------------------------------------------
\* BlockMeta, SsTableBuilder, SsTable (table.rs, table/builder.rs)
\* ------------------------------------------------------------------------
RECURSIVE encode_block_meta(_)
encode_block_meta(block_meta) ==
    IF block_meta = <<>> THEN <<>>
    ELSE LET meta == Head(block_meta)
         IN put_u32(meta.offset) \o put_u16(Len(meta.first_key)) \o meta.first_key
               \o encode_block_meta(Tail(block_meta))

RECURSIVE decode_block_meta(_)
decode_block_meta(buf) ==
    IF buf = <<>> THEN <<>>
    ELSE LET offset == get_u32(Slice(buf, 0, 4))
             first_key_len == get_u16(Slice(buf, 4, 6))
             first_key == Slice(buf, 6, 6 + first_key_len)
         IN <<[offset |-> offset, first_key |-> first_key]>>
               \o decode_block_meta(Slice(buf, 6 + first_key_len, Len(buf)))

SsTableBuilderNew(block_size) ==
    [builder |-> BlockBuilderNew(block_size), first_key |-> <<>>, data |-> <<>>,
     meta |-> <<>>, block_size |-> block_size]

\* SsTableBuilder::finish_block
finish_block(self) ==
    LET enc_block == BlockEncode(BlockBuilderBuild(self.builder))
    IN [self EXCEPT !.builder = BlockBuilderNew(self.block_size),
                    !.meta = Append(@, [offset |-> Len(self.data),
                                        first_key |-> self.first_key]),
                    !.first_key = <<>>,
                    !.data = @ \o enc_block]

\* Variant of SsTableBuilderAdd: the first key of the block a rejected
\* entry opens is not recorded.
SsTableBuilderAddNoFirstKey(self, key, value) ==
    LET s1 == IF self.first_key = <<>> THEN [self EXCEPT !.first_key = key] ELSE self
        r1 == BlockBuilderAdd(s1.builder, key, value)
    IN IF r1.ret THEN [s1 EXCEPT !.builder = r1.builder]
       ELSE LET s2 == finish_block(s1)
                r2 == BlockBuilderAdd(s2.builder, key, value)
            IN [s2 EXCEPT !.builder = r2.builder]

\* SsTableBuilder::add
SsTableBuilderAdd(self, key, value) ==
    LET s1 == IF self.first_key = <<>> THEN [self EXCEPT !.first_key = key] ELSE self
        r1 == BlockBuilderAdd(s1.builder, key, value)
    IN IF r1.ret THEN [s1 EXCEPT !.builder = r1.builder]
       ELSE LET s2 == finish_block(s1)
                r2 == BlockBuilderAdd(s2.builder, key, value)
            IN [s2 EXCEPT !.builder = r2.builder, !.first_key = key]

\* SsTableBuilder::build with a FileObject::new that succeeds: the file holds
\* the buffer.
SsTableBuilderBuild(self, id) ==
    LET s1 == finish_block(self)
        meta_offset == Len(s1.data)
        buf == s1.data \o encode_block_meta(s1.meta) \o put_u32(meta_offset)
    IN [file |-> buf, id |-> id, block_meta_offset |-> meta_offset,
        block_metas |-> s1.meta]

\* FileObject::read
FileRead(file, offset, len) == Slice(file, offset, offset + len)

\* SsTable::open
SsTableOpen(id, file) ==
    LET len == Len(file)
        raw_meta_offset == FileRead(file, len - 4, 4)
        block_meta_offset == get_u32(raw_meta_offset)
        raw_meta == FileRead(file, block_meta_offset, len - 4 - block_meta_offset)
    IN [file |-> file, id |-> id, block_meta_offset |-> block_meta_offset,
        block_metas |-> decode_block_meta(raw_meta)]

\* Variant of BlockRange: every block is read up to the meta block.
BlockRangeToMeta(self, block_idx) ==
    [offset |-> self.block_metas[block_idx + 1].offset,
     offset_end |-> self.block_meta_offset]

\* The bytes SsTable::read_block reads for the block block_idx (from 0).
BlockRange(self, block_idx) ==
    [offset |-> self.block_metas[block_idx + 1].offset,
     offset_end |-> IF block_idx + 2 <= Len(self.block_metas)
                    THEN self.block_metas[block_idx + 2].offset
                    ELSE self.block_meta_offset]

\* SsTable::read_block
read_block(self, block_idx) ==
    LET r == BlockRange(self, block_idx)
    IN BlockDecode(FileRead(self.file, r.offset, r.offset_end - r.offset))

\* slice::partition_point with the predicate of find_block_idx, on a slice
\* the predicate partitions: the index of the first element that fails it.
partition_point(block_metas, key) ==
    CHOOSE i \in 0..Len(block_metas) :
        /\ \A j \in 1..i : KeyLe(block_metas[j].first_key, key)
        /\ i < Len(block_metas) => ~KeyLe(block_metas[i + 1].first_key, key)

\* Variant of find_block_idx: the partition point itself is returned.
find_block_idx_no_sub(self, key) == partition_point(self.block_metas, key)

\* SsTable::find_block_idx
find_block_idx(self, key) ==
    saturating_sub(partition_point(self.block_metas, key), 1)

\* ------------------------------------------------------------------------
\* State
\* ------------------------------------------------------------------------
VARIABLES
    inner,       \* heap of LsmStorageInner values, by Arc identity
    cur,         \* the Arc held in the RwLock (LsmStorage.inner)
    nver,        \* next Arc identity
    mt,          \* contents of every Memtable, by Arc identity
    flush_lock,  \* holder of LsmStorage.flush_lock, or NoThread
    files,       \* SST files on disk, by sst id (path_of_sst)
    pc,          \* position of every thread
    loc,         \* locals of every thread's current call
    ncalls,      \* put, delete and sync calls so far
    \* history
    latest,      \* key -> value of its most recent put/delete
    synced,      \* keys whose most recent write precedes a successful sync
    pend,        \* per running sync: keys written before it started
    leftover,    \* memtables left in imm_memtable by a sync that failed
    due,         \* leftover memtables followed by a successful sync
    written,     \* every SST file ever written: [id, src memtable]
    panicked,    \* some sync call has panicked
    flushed,     \* per SST of the published l0_sstable: the memtable it holds
    stamp,       \* per memtable and key: which write of the key the entry is
    gh,          \* per thread: facts recorded at the steps of its call
    \* a stand-alone SsTableBuilder and the SsTable it builds
    builder,     \* the SsTableBuilder
    added,       \* the entries added so far
    held,        \* the entries added to the block under construction
    last_add,    \* the last add: its entry, what BlockBuilder::add returned
    blocks,      \* the blocks finished so far, with the entries of each
    built,       \* the SsTable returned by build
    opened,      \* the SsTable returned by SsTable::open on its file
    dec,         \* a finished block, encoded and decoded again
    rd,          \* the blocks read so far by read_block, in index order
    fnd          \* a key and the index find_block_idx returned for it

engine == <<inner, cur, nver, mt, flush_lock, files, pc, loc, ncalls,
            latest, synced, pend, leftover, due, written, panicked, flushed,
            stamp, gh>>

standalone == <<builder, added, held, last_add, blocks, built, opened, dec, rd, fnd>>

vars == <<engine, standalone>>

store == <<inner, cur, nver, mt, flush_lock, files>>
history == <<latest, synced, pend, leftover, due, written, panicked, flushed,
            stamp>>

\* LsmStorageInner::create
LsmStorageInnerCreate(m) ==
    [memtable |-> m, imm_memtable |-> <<>>, l0_sstable |-> <<>>,
     levels |-> <<>>, next_ssd_id |-> 1]

NoLoc == [flush_memtable |-> 0, sst_id |-> 0, sst |-> None, snapshot |-> 0,
          key |-> <<>>, lower |-> Unbounded, upper |-> Unbounded,
          result |-> None, items |-> <<>>, memtable |-> 0, value |-> <<>>]

NoGh == [synced |-> FALSE, nofail |-> FALSE, stable |-> FALSE, want |-> <<>>,
         copy |-> None, pre |-> None, pre_mt |-> <<>>]

\* A builder as sync makes it (SsTableBuilder::new), nothing added yet.
TableInit(block_size) ==
    /\ builder = SsTableBuilderNew(block_size)
    /\ added = <<>>
    /\ held = <<>>
    /\ last_add = None
    /\ blocks = <<>>
    /\ built = None
    /\ opened = None
    /\ dec = None
    /\ rd = <<>>
    /\ fnd = None

\* LsmStorage::open
Opened ==
    /\ inner = (1 :> LsmStorageInnerCreate(1))
    /\ cur = 1
    /\ nver = 2
    /\ mt = (1 :> EmptyMemtable)
    /\ flush_lock = NoThread
    /\ files = <<>>
    /\ pc = [t \in Threads |-> "idle"]
    /\ loc = [t \in Threads |-> NoLoc]
    /\ ncalls = 0
    /\ latest = <<>>
    /\ synced = {}
    /\ pend = [t \in Threads |-> {}]
    /\ leftover = {}
    /\ due = {}
    /\ written = {}
    /\ panicked = FALSE
    /\ flushed = <<>>
    /\ stamp = (1 :> <<>>)
    /\ gh = [t \in Threads |-> NoGh]

Init == Opened /\ TableInit(4096)

\* Threads that hold an Arc clone of the state.
Holding == {"get", "got", "scan", "scanned"}

\* Arcs still referenced: the published one and the readers' snapshots.
LiveArcs(c, p, l) == {c} \cup {l[t].snapshot : t \in {u \in Threads : p[u] \in Holding}}

Restrict(f, S) == [x \in (DOMAIN f) \cap S |-> f[x]]

\* Variant of Publish: the published LsmStorageInner is modified in place.
PublishInPlace(snapshot, p, l) ==
    /\ inner' = Restrict([inner EXCEPT ![cur] = snapshot], LiveArcs(cur, p, l))
    /\ UNCHANGED <<cur, nver>>

\* `*guard = Arc::new(snapshot)` under the write lock: a new Arc replaces
\* the published one; Arcs nobody references any more are dropped.
Publish(snapshot, p, l) ==
    /\ inner' = Restrict(inner @@ (nver :> snapshot), LiveArcs(nver, p, l))
    /\ cur' = nver
    /\ nver' = nver + 1

\* A reader took or dropped an Arc clone.
Retain(p, l) ==
    /\ inner' = Restrict(inner, LiveArcs(cur, p, l))
    /\ UNCHANGED <<cur, nver>>

\* ------------------------------------------------------------------------
\* put / delete
\* ------------------------------------------------------------------------

\* The writes of key k so far; every memtable ever made is kept in stamp.
Writes(k) ==
    LET ns == {stamp[m][k] : m \in {x \in DOMAIN stamp : k \in DOMAIN stamp[x]}}
    IN IF ns = {} THEN 0 ELSE CHOOSE n \in ns : \A o \in ns : o <= n

\* Both write paths: under the read guard, guard.memtable.put(key, value).
Write(t, k, v) ==
    /\ pc[t] = "idle"
    /\ ncalls < MaxCalls
    /\ mt' = [mt EXCEPT ![inner[cur].memtable] = MemtablePut(@, k, v)]
    /\ ncalls' = ncalls + 1
    /\ latest' = MemtablePut(latest, k, v)
    /\ synced' = synced \ {k}
    /\ pend' = [u \in Threads |-> pend[u] \ {k}]
    /\ stamp' = [stamp EXCEPT ![inner[cur].memtable] = MemtablePut(@, k, Writes(k) + 1)]
    /\ gh' = [u \in Threads |->
                IF \/ pc[u] = "scan"
                   \/ pc[u] = "get" /\ loc[u].key = k
                THEN [gh[u] EXCEPT !.stable = FALSE] ELSE gh[u]]
    /\ UNCHANGED <<inner, cur, nver, flush_lock, files, pc, loc,
                   leftover, due, written, panicked, flushed>>

Put(t, k, v) == v # Tombstone /\ Write(t, k, v)

Delete(t, k) == Write(t, k, Tombstone)

\* put / delete in two steps, for the interleavings with sync.
\* let guard = self.inner.read(); and the evaluation of guard.memtable: the
\* thread holds the read lock and a reference to the mutable memtable.
WriteLock(t, k, v) ==
    /\ pc[t] = "idle"
    /\ ncalls < MaxCalls
    /\ ncalls' = ncalls + 1
    /\ pc' = [pc EXCEPT ![t] = "put"]
    /\ loc' = [loc EXCEPT ![t].memtable = inner[cur].memtable,
                          ![t].key = k, ![t].value = v]
    /\ UNCHANGED <<store, history, gh>>

PutLock(t, k, v) == v # Tombstone /\ WriteLock(t, k, v)

DeleteLock(t, k) == WriteLock(t, k, Tombstone)

\* memtable.put(key, value) on the memtable the guard gave, Ok(()), and
\* the guard is dropped.
WriteInsert(t) ==
    /\ pc[t] = "put"
    /\ LET k == loc[t].key
           v == loc[t].value
       IN /\ mt' = [mt EXCEPT ![loc[t].memtable] = MemtablePut(@, k, v)]
          /\ latest' = MemtablePut(latest, k, v)
          /\ synced' = synced \ {k}
          /\ pend' = [u \in Threads |-> pend[u] \ {k}]
          /\ stamp' = [stamp EXCEPT ![loc[t].memtable] = MemtablePut(@, k, Writes(k) + 1)]
          /\ gh' = [u \in Threads |->
                      IF \/ pc[u] = "scan"
                         \/ pc[u] = "get" /\ loc[u].key = k
                      THEN [gh[u] EXCEPT !.stable = FALSE] ELSE gh[u]]
    /\ pc' = [pc EXCEPT ![t] = "idle"]
    /\ loc' = [loc EXCEPT ![t] = NoLoc]
    /\ UNCHANGED <<inner, cur, nver, flush_lock, files, ncalls,
                   leftover, due, written, panicked, flushed>>

\* Variant of RwLockWrite: the write lock is granted while read guards are
\* held.
RwLockWriteNoWait == TRUE

\* self.inner.write(): granted when no thread holds a read guard.  get and
\* scan take and drop theirs within one step; put and delete hold theirs
\* from WriteLock to WriteInsert.
RwLockWrite == \A u \in Threads : pc[u] # "put"

\* ------------------------------------------------------------------------
\* sync
\* ------------------------------------------------------------------------

\* Variant of SyncFreeze: the flush lock is not waited for.
SyncFreezeNoLock(t) ==
    /\ pc[t] = "idle"
    /\ ncalls < MaxCalls
    /\ RwLockWrite
    /\ flush_lock' = t
    /\ ncalls' = ncalls + 1
    /\ pend' = [pend EXCEPT ![t] = DOMAIN latest]
    /\ LET snapshot == inner[cur]
           memtable == snapshot.memtable
           fresh == Cardinality(DOMAIN mt) + 1
       IN /\ mt' = mt @@ (fresh :> EmptyMemtable)
          /\ stamp' = stamp @@ (fresh :> <<>>)
          /\ loc' = [loc EXCEPT ![t].flush_memtable = memtable,
                                ![t].sst_id = snapshot.next_ssd_id]
          /\ pc' = [pc EXCEPT ![t] = "build"]
          /\ inner' = Restrict(inner @@ (nver :> [snapshot EXCEPT !.memtable = fresh,
                                                  !.imm_memtable = Append(@, memtable)]),
                               LiveArcs(nver, pc', loc'))
          /\ cur' = nver
          /\ nver' = nver + 1
          /\ gh' = [gh EXCEPT ![t].pre = snapshot,
                              ![t].pre_mt = Restrict(mt, {memtable} \cup Range(snapshot.imm_memtable))]
    /\ UNCHANGED <<files, latest, synced, leftover, due, written, panicked,
                   flushed>>

\* let _flush_lock = self.flush_lock.lock(); then the first write-locked
\* block: the mutable memtable is replaced by a fresh one and pushed to
\* imm_memtable; sst_id is read; the clone is published.  (Taking the
\* mutex touches nothing another step reads before the block runs.)
SyncFreeze(t) ==
    /\ pc[t] = "idle"
    /\ ncalls < MaxCalls
    /\ flush_lock = NoThread
    /\ RwLockWrite
    /\ flush_lock' = t
    /\ ncalls' = ncalls + 1
    /\ pend' = [pend EXCEPT ![t] = DOMAIN latest]
    /\ LET snapshot == inner[cur]
           memtable == snapshot.memtable
           fresh == Cardinality(DOMAIN mt) + 1
       IN /\ mt' = mt @@ (fresh :> EmptyMemtable)
          /\ stamp' = stamp @@ (fresh :> <<>>)
          /\ loc' = [loc EXCEPT ![t].flush_memtable = memtable,
                                ![t].sst_id = snapshot.next_ssd_id]
          /\ pc' = [pc EXCEPT ![t] = "build"]
          /\ Publish([snapshot EXCEPT !.memtable = fresh,
                                      !.imm_memtable = Append(@, memtable)],
                     pc', loc')
          /\ gh' = [gh EXCEPT ![t].pre = snapshot,
                              ![t].pre_mt = Restrict(mt, {memtable} \cup Range(snapshot.imm_memtable))]
    /\ UNCHANGED <<files, latest, synced, leftover, due, written, panicked,
                   flushed>>

\* Variant of Pop: the earliest element is removed.
PopFront(s) == IF s = <<>> THEN s ELSE Tail(s)

\* Vec::pop
Pop(s) == IF s = <<>> THEN s ELSE SubSeq(s, 1, Len(s) - 1)

\* std::fs::write(path, &data): the file at path_of_sst(id) is replaced.
FileWrite(id, entries) ==
    [x \in (DOMAIN files) \cup {id} |-> IF x = id THEN entries ELSE files[x]]

\* flush + build succeed: the SST file is written and opened.
SyncBuild(t) ==
    /\ pc[t] = "build"
    /\ mt[loc[t].flush_memtable] # EmptyMemtable
    /\ LET sst == SsTableBuild(loc[t].sst_id, MemtableFlush(mt[loc[t].flush_memtable]))
       IN /\ files' = FileWrite(sst.id, sst.entries)
          /\ loc' = [loc EXCEPT ![t].sst = sst]
          /\ written' = written \cup {[id |-> sst.id, src |-> loc[t].flush_memtable]}
    /\ pc' = [pc EXCEPT ![t] = "register"]
    /\ UNCHANGED <<inner, cur, nver, mt, flush_lock, ncalls,
                   latest, synced, pend, leftover, due, panicked, flushed,
                   stamp, gh>>

\* Variant of SyncBuildFail: the failing sync takes the frozen memtable out
\* of imm_memtable again.
SyncBuildFailDropsMemtable(t, file_written) ==
    /\ pc[t] = "build"
    /\ mt[loc[t].flush_memtable] # EmptyMemtable
    /\ IF file_written
       THEN /\ files' = [x \in (DOMAIN files) \cup {loc[t].sst_id} |->
                           IF x = loc[t].sst_id
                           THEN MemtableFlush(mt[loc[t].flush_memtable]) ELSE files[x]]
            /\ written' = written \cup {[id |-> loc[t].sst_id, src |-> loc[t].flush_memtable]}
       ELSE UNCHANGED <<files, written>>
    /\ pc' = [pc EXCEPT ![t] = "sync_err"]
    /\ leftover' = leftover \cup {loc[t].flush_memtable}
    /\ inner' = Restrict(inner @@ (nver :> [inner[cur] EXCEPT !.imm_memtable = Pop(@)]),
                         LiveArcs(nver, pc', loc))
    /\ cur' = nver
    /\ nver' = nver + 1
    /\ UNCHANGED <<mt, flush_lock, loc, ncalls,
                   latest, synced, pend, due, panicked, flushed, stamp, gh>>

\* FileObject::new fails: either std::fs::write fails (no SST file), or the
\* file is written and opening it fails.  `?` returns the error; nothing
\* of the engine state is touched.
SyncBuildFail(t, file_written) ==
    /\ pc[t] = "build"
    /\ mt[loc[t].flush_memtable] # EmptyMemtable
    /\ IF file_written
       THEN /\ files' = FileWrite(loc[t].sst_id, MemtableFlush(mt[loc[t].flush_memtable]))
            /\ written' = written \cup {[id |-> loc[t].sst_id, src |-> loc[t].flush_memtable]}
       ELSE UNCHANGED <<files, written>>
    /\ pc' = [pc EXCEPT ![t] = "sync_err"]
    /\ leftover' = leftover \cup {loc[t].flush_memtable}
    /\ UNCHANGED <<inner, cur, nver, mt, flush_lock, loc, ncalls,
                   latest, synced, pend, due, panicked, flushed, stamp, gh>>

\* The frozen memtable has no entry: SsTableBuilder::build finishes a block
\* nothing was added to and BlockBuilder::build panics.  Unwinding drops
\* the flush lock guard and ends the call; the engine stays in use.
SyncBuildPanic(t) ==
    /\ pc[t] = "build"
    /\ mt[loc[t].flush_memtable] = EmptyMemtable
    /\ pc' = [pc EXCEPT ![t] = "idle"]
    /\ loc' = [loc EXCEPT ![t] = NoLoc]
    /\ gh' = [gh EXCEPT ![t] = NoGh]
    /\ flush_lock' = NoThread
    /\ pend' = [pend EXCEPT ![t] = {}]
    /\ panicked' = TRUE
    /\ UNCHANGED <<inner, cur, nver, mt, files, ncalls,
                   latest, synced, leftover, due, written, flushed, stamp>>

\* Variant of SyncRegister: the SST is pushed and published while the
\* memtable it was built from stays in imm_memtable.
SyncRegisterKeepsMemtable(t) ==
    /\ pc[t] = "register"
    /\ RwLockWrite
    /\ pc' = [pc EXCEPT ![t] = "idle"]
    /\ loc' = [loc EXCEPT ![t] = NoLoc]
    /\ LET snapshot == inner[cur]
       IN Publish([snapshot EXCEPT !.l0_sstable = Append(@, loc[t].sst),
                                   !.next_ssd_id = @ + 1],
                  pc', loc')
    /\ flush_lock' = NoThread
    /\ synced' = synced \cup pend[t]
    /\ pend' = [pend EXCEPT ![t] = {}]
    /\ due' = due \cup leftover
    /\ flushed' = Append(flushed, loc[t].flush_memtable)
    /\ gh' = [gh EXCEPT ![t] = NoGh]
    /\ UNCHANGED <<mt, files, ncalls, latest, leftover, written, panicked,
                   stamp>>

\* Second write-locked block, then Ok(()): imm_memtable.pop(), the SST is
\* pushed to l0_sstable, next_ssd_id += 1, the clone is published.
SyncRegister(t) ==
    /\ pc[t] = "register"
    /\ RwLockWrite
    /\ pc' = [pc EXCEPT ![t] = "idle"]
    /\ loc' = [loc EXCEPT ![t] = NoLoc]
    /\ LET snapshot == inner[cur]
       IN Publish([snapshot EXCEPT !.imm_memtable = Pop(@),
                                   !.l0_sstable = Append(@, loc[t].sst),
                                   !.next_ssd_id = @ + 1],
                  pc', loc')
    /\ flush_lock' = NoThread
    /\ synced' = synced \cup pend[t]
    /\ pend' = [pend EXCEPT ![t] = {}]
    /\ due' = due \cup leftover
    /\ flushed' = Append(flushed, loc[t].flush_memtable)
    /\ gh' = [gh EXCEPT ![t] = NoGh]
    /\ UNCHANGED <<mt, files, ncalls, latest, leftover, written, panicked,
                   stamp>>

\* sync returns the Err; the flush lock guard is dropped.
SyncReturnErr(t) ==
    /\ pc[t] = "sync_err"
    /\ pc' = [pc EXCEPT ![t] = "idle"]
    /\ loc' = [loc EXCEPT ![t] = NoLoc]
    /\ gh' = [gh EXCEPT ![t] = NoGh]
    /\ flush_lock' = NoThread
    /\ pend' = [pend EXCEPT ![t] = {}]
    /\ UNCHANGED <<inner, cur, nver, mt, files, ncalls,
                   latest, synced, leftover, due, written, panicked, flushed,
                   stamp>>

\* ------------------------------------------------------------------------
\* get
\* ------------------------------------------------------------------------

\* No sync has failed so far (with an error or by panicking).
NoSyncFailed == leftover = {} /\ ~panicked

\* let snapshot = { let guard = self.inner.read(); Arc::clone(&guard) };
GetSnapshot(t, k) ==
    /\ pc[t] = "idle"
    /\ pc' = [pc EXCEPT ![t] = "get"]
    /\ loc' = [loc EXCEPT ![t].snapshot = cur, ![t].key = k]
    /\ gh' = [gh EXCEPT ![t].synced = k \in synced,
                        ![t].nofail = NoSyncFailed,
                        ![t].stable = TRUE,
                        ![t].copy = inner[cur]]
    /\ Retain(pc', loc')
    /\ UNCHANGED <<mt, flush_lock, files, ncalls, history>>

\* for memtable in snapshot.imm_memtable.iter().rev(): the first hit
\* decides; imms is the list newest first.
RECURSIVE GetImm(_, _)
GetImm(imms, key) ==
    IF imms = <<>> THEN [hit |-> FALSE]
    ELSE LET v == MemtableGet(mt[Head(imms)], key)
         IN IF v.some
            THEN [hit |-> TRUE, res |-> IF v.val = Tombstone THEN None ELSE v]
            ELSE GetImm(Tail(imms), key)

\* Variant of GetL0: the tables are taken oldest first (no .rev()).
GetL0OldestFirst(l0_sstable, key) ==
    LET iters == [i \in 1..Len(l0_sstable) |-> create_and_seek_to_key(l0_sstable[i], key)]
        iter == MergeIterator(iters)
    IN IF IterIsValid(iter) THEN Some(Head(iter).value) ELSE None

\* The L0 part of get: iterators over l0_sstable newest first, each sought
\* to key, merged; a valid merge iterator's value is returned as it is.
GetL0(l0_sstable, key) ==
    LET tables == Reverse(l0_sstable)
        iters == [i \in 1..Len(tables) |-> create_and_seek_to_key(tables[i], key)]
        iter == MergeIterator(iters)
    IN IF IterIsValid(iter) THEN Some(Head(iter).value) ELSE None

\* LsmStorage::get after the snapshot was taken.
Get(snapshot, key) ==
    LET value == MemtableGet(mt[snapshot.memtable], key)
        imm == GetImm(Reverse(snapshot.imm_memtable), key)
    IN IF value.some THEN (IF value.val = Tombstone THEN None ELSE value)
       ELSE IF imm.hit THEN imm.res
       ELSE GetL0(snapshot.l0_sstable, key)

GetReturn(t) ==
    /\ pc[t] = "get"
    /\ pc' = [pc EXCEPT ![t] = "got"]
    /\ loc' = [loc EXCEPT ![t].result = Get(inner[loc[t].snapshot], loc[t].key)]
    /\ gh' = [gh EXCEPT ![t].want = latest]
    /\ UNCHANGED <<store, ncalls, history>>

\* ------------------------------------------------------------------------
\* scan
\* ------------------------------------------------------------------------
\* let snapshot = { let guard = self.inner.read(); Arc::clone(&guard) };
ScanSnapshot(t) ==
    /\ pc[t] = "idle"
    /\ pc' = [pc EXCEPT ![t] = "scan"]
    /\ loc' = [loc EXCEPT ![t].snapshot = cur]
    /\ gh' = [gh EXCEPT ![t].nofail = NoSyncFailed,
                        ![t].stable = TRUE,
                        ![t].copy = inner[cur]]
    /\ Retain(pc', loc')
    /\ UNCHANGED <<mt, flush_lock, files, ncalls, history>>

\* The SST iterator scan builds for one table, by the kind of lower bound.
ScanTableIter(table, lower) ==
    CASE lower.kind = "Included" -> create_and_seek_to_key(table, lower.key)
      [] lower.kind = "Excluded" ->
            LET iter == create_and_seek_to_key(table, lower.key)
            IN IF IterIsValid(iter) /\ Head(iter).key = lower.key
               THEN IterNext(iter) ELSE iter
      [] lower.kind = "Unbounded" -> create_and_seek_to_first(table)

\* LsmStorage::scan after the snapshot was taken; the entries the returned
\* iterator yields.
Scan(snapshot, lower, upper) ==
    LET mems == <<snapshot.memtable>> \o Reverse(snapshot.imm_memtable)
        memtable_iters == [i \in 1..Len(mems) |-> MemtableScan(mt[mems[i]], lower, upper)]
        memtable_iter == MergeIterator(memtable_iters)
        tables == Reverse(snapshot.l0_sstable)
        table_iters == [i \in 1..Len(tables) |-> ScanTableIter(tables[i], lower)]
        table_iter == MergeIterator(table_iters)
        iter == TwoMergeIterator(memtable_iter, table_iter)
    IN LsmIterator(iter, upper)

\* The rest of scan.  Its arguments lower and upper are first read here,
\* after the snapshot, so they are drawn here.
ScanReturn(t, lower, upper) ==
    /\ pc[t] = "scan"
    /\ pc' = [pc EXCEPT ![t] = "scanned"]
    /\ loc' = [loc EXCEPT ![t].lower = lower, ![t].upper = upper,
                          ![t].items = Scan(inner[loc[t].snapshot], lower, upper)]
    /\ gh' = [gh EXCEPT ![t].want = latest]
    /\ UNCHANGED <<store, ncalls, history>>

\* The caller is done with the result of get or scan; the snapshot Arc is
\* dropped.
Return(t) ==
    /\ pc[t] \in {"got", "scanned"}
    /\ pc' = [pc EXCEPT ![t] = "idle"]
    /\ loc' = [loc EXCEPT ![t] = NoLoc]
    /\ gh' = [gh EXCEPT ![t] = NoGh]
    /\ Retain(pc', loc')
    /\ UNCHANGED <<mt, flush_lock, files, ncalls, history>>

\* ------------------------------------------------------------------------
\* Specification
\* ------------------------------------------------------------------------
\* A result handed back by get or scan.
ResultPending == \E t \in Readers : pc[t] \in {"got", "scanned"}

\* The caller takes a result before any other step is looked at: Return
\* only drops the reader's Arc and locals, so it commutes with every step
\* of the engine and no engine state is lost by scheduling it first.
Next ==
    \/ \E t \in Readers : Return(t) /\ UNCHANGED standalone
    \/ \E t \in Workers, k \in Keys, v \in Values : ~ResultPending /\ Put(t, k, v) /\ UNCHANGED standalone
    \/ \E t \in Workers, k \in Keys : ~ResultPending /\ Delete(t, k) /\ UNCHANGED standalone
    \/ \E t \in Workers : ~ResultPending /\ SyncFreeze(t) /\ UNCHANGED standalone
    \/ \E t \in Workers : ~ResultPending /\ SyncBuild(t) /\ UNCHANGED standalone
    \/ \E t \in Workers, file_written \in BOOLEAN :
          ~ResultPending /\ SyncBuildFail(t, file_written) /\ UNCHANGED standalone
    \/ \E t \in Workers : ~ResultPending /\ SyncBuildPanic(t) /\ UNCHANGED standalone
    \/ \E t \in Workers : ~ResultPending /\ SyncRegister(t) /\ UNCHANGED standalone
    \/ \E t \in Workers : ~ResultPending /\ SyncReturnErr(t) /\ UNCHANGED standalone
    \/ \E t \in Readers, k \in Keys : ~ResultPending /\ GetSnapshot(t, k) /\ UNCHANGED standalone
    \/ \E t \in Readers : ~ResultPending /\ GetReturn(t) /\ UNCHANGED standalone
    \/ \E t \in Readers : ~ResultPending /\ ScanSnapshot(t) /\ UNCHANGED standalone
    \/ \E t \in Readers, lower \in Bounds, upper \in Bounds :
          ~ResultPending /\ ScanReturn(t, lower, upper) /\ UNCHANGED standalone

\* The engine with every operation.
Spec == Init /\ [][Next]_vars

\* The engine serving writes, syncs and point reads.  A scan changes no
\* state of the engine, so the engine goes through the same states.
NextPoint ==
    \/ \E t \in Readers : Return(t) /\ UNCHANGED standalone
    \/ \E t \in Workers, k \in Keys, v \in Values : ~ResultPending /\ Put(t, k, v) /\ UNCHANGED standalone
    \/ \E t \in Workers, k \in Keys : ~ResultPending /\ Delete(t, k) /\ UNCHANGED standalone
    \/ \E t \in Workers : ~ResultPending /\ SyncFreeze(t) /\ UNCHANGED standalone
    \/ \E t \in Workers : ~ResultPending /\ SyncBuild(t) /\ UNCHANGED standalone
    \/ \E t \in Workers, file_written \in BOOLEAN :
          ~ResultPending /\ SyncBuildFail(t, file_written) /\ UNCHANGED standalone
    \/ \E t \in Workers : ~ResultPending /\ SyncBuildPanic(t) /\ UNCHANGED standalone
    \/ \E t \in Workers : ~ResultPending /\ SyncRegister(t) /\ UNCHANGED standalone
    \/ \E t \in Workers : ~ResultPending /\ SyncReturnErr(t) /\ UNCHANGED standalone
    \/ \E t \in Readers, k \in Keys : ~ResultPending /\ GetSnapshot(t, k) /\ UNCHANGED standalone
    \/ \E t \in Readers : ~ResultPending /\ GetReturn(t) /\ UNCHANGED standalone

SpecPoint == Init /\ [][NextPoint]_vars

\* Writers and syncs alone, a write in its two steps: every interleaving
\* of put / delete with the steps of sync.
NextLock ==
    \/ \E t \in Workers, k \in Keys, v \in Values : PutLock(t, k, v) /\ UNCHANGED standalone
    \/ \E t \in Workers, k \in Keys : DeleteLock(t, k) /\ UNCHANGED standalone
    \/ \E t \in Workers : WriteInsert(t) /\ UNCHANGED standalone
    \/ \E t \in Workers : SyncFreeze(t) /\ UNCHANGED standalone
    \/ \E t \in Workers : SyncBuild(t) /\ UNCHANGED standalone
    \/ \E t \in Workers, file_written \in BOOLEAN :
          SyncBuildFail(t, file_written) /\ UNCHANGED standalone
    \/ \E t \in Workers : SyncBuildPanic(t) /\ UNCHANGED standalone
    \/ \E t \in Workers : SyncRegister(t) /\ UNCHANGED standalone
    \/ \E t \in Workers : SyncReturnErr(t) /\ UNCHANGED standalone

SpecLock == Init /\ [][NextLock]_vars

\* ------------------------------------------------------------------------
\* A stand-alone SsTableBuilder: entries with strictly ascending keys are
\* added, the table is built, opened and read back.
\* ------------------------------------------------------------------------
TableAdd(key, value) ==
    /\ ~built.some
    /\ Len(added) < MaxEntries
    /\ IF added = <<>> THEN TRUE ELSE KeyLt(added[Len(added)].key, key)
    /\ builder' = SsTableBuilderAdd(builder, key, value)
    /\ added' = Append(added, [key |-> key, value |-> value])
    /\ LET r1 == BlockBuilderAdd(builder.builder, key, value)
       IN /\ last_add' = Some([key |-> key, value |-> value, ret |-> r1.ret,
                               held |-> held, block_size |-> builder.block_size])
          /\ IF r1.ret
             THEN /\ held' = Append(held, [key |-> key, value |-> value])
                  /\ blocks' = blocks
             ELSE /\ held' = <<[key |-> key, value |-> value]>>
                  /\ blocks' = Append(blocks,
                                      [block |-> BlockBuilderBuild(builder.builder),
                                       entries |-> held])
    /\ UNCHANGED <<built, opened, dec, rd, fnd, engine>>

\* build(0, None, path), as build_for_test calls it.  At least one entry
\* was added (BlockBuilder::build panics on an empty block).
TableBuild ==
    /\ ~built.some
    /\ added # <<>>
    /\ built' = Some(SsTableBuilderBuild(builder, 0))
    /\ blocks' = Append(blocks, [block |-> BlockBuilderBuild(builder.builder),
                                 entries |-> held])
    /\ UNCHANGED <<builder, added, held, last_add, opened, dec, rd, fnd, engine>>

\* SsTable::open on the file build wrote.
TableOpen ==
    /\ built.some
    /\ ~opened.some
    /\ opened' = Some(SsTableOpen(0, built.val.file))
    /\ UNCHANGED <<builder, added, held, last_add, blocks, built, dec, rd, fnd, engine>>

\* Block::decode(block.encode()) of the i-th finished block.
BlockRoundTrip(i) ==
    /\ i \in 1..Len(blocks)
    /\ dec' = Some([idx |-> i, block |-> BlockDecode(BlockEncode(blocks[i].block))])
    /\ UNCHANGED <<builder, added, held, last_add, blocks, built, opened, rd, fnd, engine>>

\* read_block of the next block index.
ReadBlock ==
    /\ built.some
    /\ Len(rd) < Len(built.val.block_metas)
    /\ rd' = Append(rd, [range |-> BlockRange(built.val, Len(rd)),
                         block |-> read_block(built.val, Len(rd))])
    /\ UNCHANGED <<builder, added, held, last_add, blocks, built, opened, dec, fnd, engine>>

FindBlockIdx(key) ==
    /\ built.some
    /\ fnd' = Some([key |-> key, idx |-> find_block_idx(built.val, key)])
    /\ UNCHANGED <<builder, added, held, last_add, blocks, built, opened, dec, rd, engine>>

InitTable == \E block_size \in BlockSizes : Opened /\ TableInit(block_size)

NextTable ==
    \/ \E key \in TableKeys, value \in TableValues : TableAdd(key, value)
    \/ TableBuild
    \/ TableOpen
    \/ \E i \in 1..MaxEntries : BlockRoundTrip(i)
    \/ ReadBlock
    \/ \E key \in TableKeys : FindBlockIdx(key)

SpecTable == InitTable /\ [][NextTable]_vars

\* ------------------------------------------------------------------------
\* Properties
\* ------------------------------------------------------------------------

\* The key of a finished get was not written while the get ran, and its
\* most recent write is a put.
ReadOfPut(t) ==
    /\ pc[t] = "got"
    /\ gh[t].stable
    /\ loc[t].key \in DOMAIN gh[t].want
    /\ gh[t].want[loc[t].key] # Tombstone

\* C1: a get(k) started after a sync that succeeded after the most recent
\* write of k, a put(k, v), and not overlapped by a write of k, returns v.
C1_SyncedPutIsRead ==
    \A t \in Readers :
        ReadOfPut(t) /\ gh[t].synced =>
            loc[t].result = Some(gh[t].want[loc[t].key])

\* C2: a get(k) whose key's most recent write is a delete (and which no
\* write of k overlaps) returns not-found, wherever the tombstone lives.
C2_DeletedIsNotFound ==
    \A t \in Readers :
        /\ pc[t] = "got"
        /\ gh[t].stable
        /\ loc[t].key \in DOMAIN gh[t].want
        /\ gh[t].want[loc[t].key] = Tombstone
        => loc[t].result = None

\* Some layer of the snapshot holds an entry whose key is k.
HasEntry(snapshot, k) ==
    \/ \E m \in {snapshot.memtable} \cup Range(snapshot.imm_memtable) : k \in DOMAIN mt[m]
    \/ \E i \in 1..Len(snapshot.l0_sstable) :
          \E j \in 1..Len(snapshot.l0_sstable[i].entries) :
              snapshot.l0_sstable[i].entries[j].key = k

\* C3: get(k) returns a value only if some layer of its snapshot holds an
\* entry with key k; for a key never written it returns not-found.
C3_GetOnlyOwnKey ==
    \A t \in Readers :
        pc[t] = "got" =>
            /\ loc[t].result.some => HasEntry(inner[loc[t].snapshot], loc[t].key)
            /\ loc[t].key \notin DOMAIN gh[t].want => loc[t].result = None

\* C4: while no sync has failed, a get(k) not overlapped by a write of k
\* returns the value of the most recent put(k), in whichever layer (mutable
\* memtable, immutable memtable, one of several L0 SSTs) older values sit.
C4_NewestWins ==
    \A t \in Readers :
        ReadOfPut(t) /\ gh[t].nofail =>
            loc[t].result = Some(gh[t].want[loc[t].key])

\* The SSTs of a snapshot that hold key k.
TablesWith(snapshot, k) ==
    {i \in 1..Len(snapshot.l0_sstable) :
        \E j \in 1..Len(snapshot.l0_sstable[i].entries) :
            snapshot.l0_sstable[i].entries[j].key = k}

\* A get answered from L0 while two SSTs hold its key with different values.
C4_Witness ==
    \E t \in Readers :
        /\ ReadOfPut(t)
        /\ gh[t].nofail
        /\ loc[t].result.some
        /\ LET snapshot == inner[loc[t].snapshot]
           IN /\ \A m \in {snapshot.memtable} \cup Range(snapshot.imm_memtable) :
                    loc[t].key \notin DOMAIN mt[m]
              /\ Cardinality(TablesWith(snapshot, loc[t].key)) >= 2
              /\ \E i \in 1..Len(snapshot.l0_sstable) :
                    \E j \in 1..Len(snapshot.l0_sstable[i].entries) :
                        /\ snapshot.l0_sstable[i].entries[j].key = loc[t].key
                        /\ snapshot.l0_sstable[i].entries[j].value # loc[t].result.val

\* What a scan has to yield: the keys within the bounds whose most recent
\* write is a put, ascending, each with that put's value.
Expected(want, lower, upper) ==
    LET ks == SortKeys({k \in DOMAIN want :
                          /\ AboveLower(k, lower)
                          /\ BelowUpper(k, upper)
                          /\ want[k] # Tombstone})
    IN [i \in 1..Len(ks) |-> [key |-> ks[i], value |-> want[ks[i]]]]

\* C5: a scan not overlapped by a write yields exactly the keys within its
\* bounds whose most recent write is a put, each once, ascending, with that
\* put's value.
C5_ScanYieldsLatest ==
    \A t \in Readers :
        pc[t] = "scanned" /\ gh[t].stable =>
            loc[t].items = Expected(gh[t].want, loc[t].lower, loc[t].upper)

\* C6: the LsmStorageInner a reader holds stays as it was read (memtable
\* reference, imm_memtable, l0_sstable, next_ssd_id), whatever sync publishes
\* meanwhile.
C6_SnapshotUnchanged ==
    \A t \in Readers :
        pc[t] \in Holding =>
            /\ loc[t].snapshot \in DOMAIN inner
            /\ inner[loc[t].snapshot] = gh[t].copy

\* A reader holds a snapshot while a sync has since frozen the memtable and
\* registered an SST.
C6_Witness ==
    \E t \in Readers :
        /\ pc[t] = "get"
        /\ loc[t].snapshot # cur
        /\ inner[cur].l0_sstable # gh[t].copy.l0_sstable
        /\ inner[cur].memtable # gh[t].copy.memtable

\* Syncs between their freeze step and their register step (or their return
\* of an error).
Flushing == {t \in Workers : pc[t] \in {"build", "register", "sync_err"}}

\* C7: at most one sync is between its freeze step and its register step.
C7_OneFlushAtATime == Cardinality(Flushing) <= 1

\* A sync is about to register while another worker is free to call sync.
C7_Witness ==
    \E t \in Workers, u \in Workers :
        /\ t # u
        /\ pc[t] = "register"
        /\ pc[u] = "idle"
        /\ ncalls < MaxCalls

\* C8: next_ssd_id never decreases (no state a reader still holds has a
\* larger one than the published state) and no two SST files written, and no
\* two SSTs in l0_sstable, carry the same id.
C8_SstIdsUnique ==
    /\ \A v \in DOMAIN inner : inner[v].next_ssd_id <= inner[cur].next_ssd_id
    /\ \A a \in written, b \in written : a.id = b.id => a = b
    /\ \A i \in 1..Len(inner[cur].l0_sstable), j \in 1..Len(inner[cur].l0_sstable) :
          inner[cur].l0_sstable[i].id = inner[cur].l0_sstable[j].id => i = j

\* C9: once a sync has succeeded after a failed one, the memtable the failed
\* sync left behind is no longer in imm_memtable.
C9_LeftoverReflushed ==
    \A m \in due : m \notin Range(inner[cur].imm_memtable)

\* C10: when sync returns an I/O error, l0_sstable and next_ssd_id are as
\* they were when the sync began, and every entry the memtables held then is
\* still held by a memtable of the published state.
C10_FailedSyncKeepsState ==
    \A t \in Workers :
        pc[t] = "sync_err" =>
            LET snapshot == inner[cur]
                pre == gh[t].pre
            IN /\ snapshot.l0_sstable = pre.l0_sstable
               /\ snapshot.next_ssd_id = pre.next_ssd_id
               /\ \A m \in DOMAIN gh[t].pre_mt :
                     /\ m \in {snapshot.memtable} \cup Range(snapshot.imm_memtable)
                     /\ \A k \in DOMAIN gh[t].pre_mt[m] :
                           /\ k \in DOMAIN mt[m]
                           /\ mt[m][k] = gh[t].pre_mt[m][k]

\* A sync has failed after an earlier sync registered an SST.
C10_Witness ==
    \E t \in Workers :
        /\ pc[t] = "sync_err"
        /\ inner[cur].l0_sstable # <<>>
        /\ mt[loc[t].flush_memtable] # EmptyMemtable

\* The keys of the entries an SST holds.
SstKeys(table) == {table.entries[j].key : j \in 1..Len(table.entries)}

\* C11: in the published state every entry of the mutable memtable and of
\* every immutable memtable is a later write of its key than the entry of
\* the same key in any L0 SST.
C11_MemtableSideNewer ==
    LET snapshot == inner[cur]
    IN \A m \in {snapshot.memtable} \cup Range(snapshot.imm_memtable) :
          \A i \in 1..Len(snapshot.l0_sstable) :
             \A k \in (DOMAIN mt[m]) \cap SstKeys(snapshot.l0_sstable[i]) :
                stamp[m][k] > stamp[flushed[i]][k]

\* ------------------------------------------------------------------------
\* Properties of blocks and SSTs
\* ------------------------------------------------------------------------

\* C12: a block made by BlockBuilder, encoded and decoded again, has the
\* data bytes and the offsets it had.
C12_BlockRoundTrip ==
    dec.some => dec.val.block = blocks[dec.val.idx].block

\* A block of two entries or more went through encode and decode.
C12_Witness ==
    /\ dec.some
    /\ Len(blocks[dec.val.idx].entries) >= 2
    /\ Len(dec.val.block.offsets) >= 2

\* The bytes an entry takes in a block: two lengths, the key, the value.
EntryBytes(e) == 4 + Len(e.key) + Len(e.value)

RECURSIVE SumBytes(_)
SumBytes(entries) ==
    IF entries = <<>> THEN 0 ELSE EntryBytes(Head(entries)) + SumBytes(Tail(entries))

\* C13: BlockBuilder::add returns true exactly when the builder is empty or
\* entries_bytes + 2 * num_entries + 2 + (4 + key_len + value_len) + 2 is
\* at most block_size.
C13_AddAcceptsIffFits ==
    last_add.some =>
        LET a == last_add.val
            num_entries == Len(a.held)
            entries_bytes == SumBytes(a.held)
        IN a.ret = (\/ num_entries = 0
                    \/ entries_bytes + 2 * num_entries + 2
                          + (4 + Len(a.key) + Len(a.value)) + 2 <= a.block_size)

\* An empty builder took an entry larger than block_size, and the builder
\* holding an entry has just rejected one.
C13_Witness ==
    /\ last_add.some
    /\ ~last_add.val.ret
    /\ Len(last_add.val.held) >= 1
    /\ EntryBytes(added[1]) > builder.block_size

\* The block metas so far: of the table once built, of the builder before.
Metas == IF built.some THEN built.val.block_metas ELSE builder.meta

\* The byte offset at which the i-th finished block starts.
RECURSIVE BlockStart(_)
BlockStart(i) ==
    IF i = 1 THEN 0 ELSE BlockStart(i - 1) + Len(BlockEncode(blocks[i - 1].block))

\* C14: there is one BlockMeta per finished block; meta i has the first key
\* stored in block i and the byte offset at which block i starts; first keys
\* and offsets increase strictly; SsTable::open reads the same metas back.
C14_MetaPerBlock ==
    /\ Len(Metas) = Len(blocks)
    /\ \A i \in 1..Len(Metas) :
          /\ Metas[i].first_key = blocks[i].entries[1].key
          /\ Metas[i].offset = BlockStart(i)
    /\ \A i \in 1..(Len(Metas) - 1) :
          /\ KeyLt(Metas[i].first_key, Metas[i + 1].first_key)
          /\ Metas[i].offset < Metas[i + 1].offset
    /\ opened.some => opened.val.block_metas = built.val.block_metas

\* A table of several blocks, one of them with several entries, built and
\* opened.
C14_Witness ==
    /\ built.some
    /\ opened.some
    /\ Len(built.val.block_metas) >= 2
    /\ \E i \in 1..Len(blocks) : Len(blocks[i].entries) >= 2

\* C15: find_block_idx(k) returns j with 0 <= j < n such that j = 0 and k is
\* below the first key of block 1 (if there is one), or the first key of
\* block j is <= k and block j is the last or k is below the first key of
\* block j + 1.
C15_FindBlockIdx ==
    fnd.some =>
        LET j == fnd.val.idx
            k == fnd.val.key
            meta == built.val.block_metas
            n == Len(meta)
        IN /\ 0 <= j
           /\ j < n
           /\ \/ j = 0 /\ (n >= 2 => KeyLt(k, meta[2].first_key))
              \/ /\ KeyLe(meta[j + 1].first_key, k)
                 /\ j + 1 = n \/ KeyLt(k, meta[j + 2].first_key)

\* A key was found in a block that is neither the first nor the last.
C15_Witness ==
    /\ fnd.some
    /\ fnd.val.idx >= 1
    /\ fnd.val.idx + 1 < Len(built.val.block_metas)

\* The entries of the blocks read so far, in the order read.
RECURSIVE ReadEntries(_)
ReadEntries(reads) ==
    IF reads = <<>> THEN <<>>
    ELSE ReadEntries(SubSeq(reads, 1, Len(reads) - 1))
            \o BlockEntries(reads[Len(reads)].block)

\* C19: the byte ranges read_block uses start at 0, each is non-empty and
\* begins where the one before ends, the last ends at block_meta_offset; the
\* blocks decode to the blocks built, and their entries in index order are
\* the entries added, in the order added.
C19_SstRoundTrip ==
    /\ \A i \in 1..Len(rd) :
          /\ rd[i].range.offset < rd[i].range.offset_end
          /\ rd[i].range.offset = (IF i = 1 THEN 0 ELSE rd[i - 1].range.offset_end)
          /\ rd[i].block = blocks[i].block
          /\ BlockEntries(rd[i].block) = blocks[i].entries
    /\ Len(ReadEntries(rd)) <= Len(added)
    /\ ReadEntries(rd) = SubSeq(added, 1, Len(ReadEntries(rd)))
    /\ built.some /\ Len(rd) = Len(built.val.block_metas) =>
          /\ rd[Len(rd)].range.offset_end = built.val.block_meta_offset
          /\ ReadEntries(rd) = added

\* Every block of a table of several blocks and three entries was read.
C19_Witness ==
    /\ built.some
    /\ Len(rd) = Len(built.val.block_metas)
    /\ Len(rd) >= 2
    /\ Len(added) >= 3

\* ------------------------------------------------------------------------
\* Properties of sync among concurrent calls
\* ------------------------------------------------------------------------

\* The memtable the i-th SST of the published state was built from, and
\* the memtable of an SST built and not yet registered.
FlushedTables ==
    {[table |-> inner[cur].l0_sstable[i], src |-> flushed[i]] :
        i \in 1..Len(inner[cur].l0_sstable)}
    \cup {[table |-> loc[t].sst, src |-> loc[t].flush_memtable] :
            t \in {u \in Workers : pc[u] = "register"}}

\* The layers of the published state that hold the most recent write of k.
HoldsLatest(k) ==
    LET snapshot == inner[cur]
        mems == {snapshot.memtable} \cup Range(snapshot.imm_memtable)
    IN \/ \E m \in mems :
             /\ k \in DOMAIN mt[m]
             /\ mt[m][k] = latest[k]
             /\ stamp[m][k] = Writes(k)
       \/ \E i \in 1..Len(snapshot.l0_sstable) :
             /\ k \in DOMAIN stamp[flushed[i]]
             /\ stamp[flushed[i]][k] = Writes(k)
             /\ \E j \in 1..Len(snapshot.l0_sstable[i].entries) :
                   snapshot.l0_sstable[i].entries[j] = [key |-> k, value |-> latest[k]]

\* C16: no put or delete inserts into a memtable that sync's freeze step
\* has published as immutable: a thread between taking the read guard and
\* inserting always targets the mutable memtable of the published state;
\* every SST holds all that the memtable it was built from holds, whatever
\* was written since; and the most recent write of every key is in a
\* memtable of the published state or in an SST of it.
C16_NoWriteAfterFreeze ==
    /\ \A t \in Workers : pc[t] = "put" => loc[t].memtable = inner[cur].memtable
    /\ \A f \in FlushedTables : f.table.entries = MemtableFlush(mt[f.src])
    /\ \A k \in DOMAIN latest : HoldsLatest(k)

\* A sync has frozen and written a memtable with entries, a write has
\* landed in the newer memtable since, and another write holds the read
\* guard while the sync waits to register.
C16_Witness ==
    \E t \in Workers, u \in Workers :
       /\ pc[t] = "register"
       /\ pc[u] = "put"
       /\ mt[loc[t].flush_memtable] # EmptyMemtable
       /\ mt[inner[cur].memtable] # EmptyMemtable

\* C17: the register step of a sync removes from imm_memtable exactly the
\* memtable this sync froze, and the SST it pushes to l0_sstable holds that
\* memtable's entries; the other immutable memtables, those left by failed
\* syncs included, stay as they are and in their order.
C17_RegisterRemovesOwn ==
    [][\A t \in Workers :
          (pc[t] = "register" /\ pc'[t] = "idle") =>
             LET own == loc[t].flush_memtable
                 imm == inner[cur].imm_memtable
                 l0 == inner'[cur'].l0_sstable
             IN /\ own \in Range(imm)
                /\ inner'[cur'].imm_memtable = SelectSeq(imm, LAMBDA m : m # own)
                /\ Len(inner'[cur'].imm_memtable) = Len(imm) - 1
                /\ l0 = Append(inner[cur].l0_sstable, loc[t].sst)
                /\ l0[Len(l0)].entries = MemtableFlush(mt[own])]_vars

\* A sync has registered the memtable it froze while a memtable an earlier
\* failed sync left is still in imm_memtable.
C17_Witness ==
    /\ flushed # <<>>
    /\ flushed[Len(flushed)] \notin Range(inner[cur].imm_memtable)
    /\ \E m \in leftover \cap Range(inner[cur].imm_memtable) : m < flushed[Len(flushed)]

\* How often x occurs in the sequence s.
Occurrences(s, x) == Cardinality({i \in 1..Len(s) : s[i] = x})

\* C18: in every state a reader can snapshot (the published one and those
\* readers still hold), each memtable frozen so far is either once in
\* imm_memtable with no SST of it in l0_sstable, or has exactly one SST in
\* l0_sstable, holding its entries, and is not in imm_memtable.  Memtables
\* are numbered in the order they are made, so the frozen ones of a state
\* are those older than its mutable memtable.
C18_FrozenExactlyOnce ==
    \A v \in DOMAIN inner :
       LET snapshot == inner[v]
           srcs == SubSeq(flushed, 1, Len(snapshot.l0_sstable))
       IN /\ Len(snapshot.l0_sstable) <= Len(flushed)
          /\ \A m \in 1..(snapshot.memtable - 1) :
                Occurrences(snapshot.imm_memtable, m) + Occurrences(srcs, m) = 1
          /\ snapshot.memtable \notin Range(snapshot.imm_memtable) \cup Range(srcs)
          /\ \A i \in 1..Len(srcs) :
                snapshot.l0_sstable[i].entries = MemtableFlush(mt[srcs[i]])

\* The published state has one frozen memtable as an SST and another in
\* imm_memtable, and a reader holds an earlier state.
C18_Witness ==
    /\ inner[cur].l0_sstable # <<>>
    /\ inner[cur].imm_memtable # <<>>
    /\ \E t \in Readers : pc[t] = "get" /\ loc[t].snapshot # cur

\* C20: sync never reaches the "block should not be empty" panic of
\* BlockBuilder::build, and every memtable a sync froze and returned
\* without an I/O error is gone from imm_memtable.
C20_SyncNeverPanics ==
    /\ ~panicked
    /\ \A m \in Range(inner[cur].imm_memtable) :
          \/ m \in leftover
          \/ \E t \in Workers : pc[t] \in {"build", "register"} /\ loc[t].flush_memtable = m

=============================================================================
